---------------------------- MODULE Spec2Model ----------------------------
(***************************************************************************)
(* Registration / verification backend (main.py, database.py,             *)
(* email_service.py).  The store holds four tables; every request handler *)
(* is an `async def` without an await between its first query and its     *)
(* commit, so a handler runs as one step.                                  *)
(*                                                                         *)
(* Every handler is written twice over the same definition: XResult(...)   *)
(* computes the response and the tables the handler leaves behind, from    *)
(* the current tables and the clock; the action X(...) installs them.      *)
(***************************************************************************)
EXTENDS Integers, FiniteSets, Sequences, TLC

VARIABLES
    teams,        \* rows of team_registrations
    members,      \* rows of team_members
    codes,        \* rows of VerificationCode
    submissions,  \* rows of Submission
    now,          \* datetime.utcnow(), in minutes
    resp,         \* the response to the latest request
    docs_tokens,  \* the process-wide dict token -> {"username", "expires"}
    docs_now,     \* datetime.utcnow() as the token gate reads it, in seconds
    pending       \* per worker: the request it has read for but not committed

vars == <<teams, members, codes, submissions, now, resp,
          docs_tokens, docs_now, pending>>
store == <<teams, members, codes, submissions>>
gate == <<docs_tokens, docs_now>>

---------------------------------------------------------------------------
(* Bounds of the model *)

MaxId == 2         \* largest id of a team row and of a code row
MaxSubs == 1       \* rows the Submission table may hold
MaxTime == 20      \* the clock stops here
TickMinutes == 10  \* the clock is read every TickMinutes minutes

MaxDocsTime == 10      \* the clock of the token gate stops here
DocsTickSeconds == 5   \* the token gate reads its clock every DocsTickSeconds

(* Program constant: timedelta(minutes=10) *)
CodeTTL == 10

(* Program constant: timedelta(seconds=5) *)
DocsTTL == 5

(* Workers that serve requests side by side *)
Workers == {"w1", "w2"}
Idle == [pc |-> "idle"]

(* Request inputs.  username is a plain str, so it may look like an email *)
Usernames == {"a1", "a@x.com"}
Emails == {"a@x.com", "b@x.com"}
StoredPasswords == {"pw"}
Passwords == StoredPasswords \cup {"other"}
CodeValues == {"123456", "654321"}
MemberLists == {<<[name |-> "lead", isLeader |-> TRUE]>>}
LoginNames == Usernames \cup Emails

(* Inputs of the token gate.  A request may carry no Authorization header
   and no token parameter *)
DocsUsername == "docs-user"      \* config.DOCS_USERNAME
DocsPassword == "docs-pass"      \* config.DOCS_PASSWORD
NoCredentials == [present |-> FALSE, username |-> "", password |-> ""]
Credentials ==
    [present : {TRUE}, username : {DocsUsername, "guest"},
     password : {DocsPassword, "guess"}] \cup {NoCredentials}
Tokens == {"uuid-1", "uuid-2", "uuid-3"}   \* values of str(uuid.uuid4())
NoToken == ""
TokenParams == Tokens \cup {"uuid-0", NoToken}

RegistrationData ==
    [username : Usernames, email : Emails, password : StoredPasswords,
     members : MemberLists]
VerifyCodeData == [email : Emails, code : CodeValues]
LoginData == [username : LoginNames, password : Passwords]
SubmissionData == [username : Usernames]

---------------------------------------------------------------------------
(* Response details (the source's messages, by meaning) *)

UsernameExists == "username already exists"
EmailExists == "email already registered"
SendFailed == "verification mail not sent"
IntegrityFailure == "unhandled IntegrityError"
StaleFailure == "unhandled StaleDataError"
CodeSent == "verification code sent"
NoMatchingCode == "code wrong or no longer valid"
CodeExpired == "code expired, register again"
NoPendingTeam == "no registration waiting for verification"
Registered == "registration complete"
BadCredentials == "wrong username or password"
NotVerified == "account not verified"
LoggedIn == "login ok"
UserNotFound == "user not found or not verified"
Submitted == "submission stored"
NoSuchUsername == "username does not exist"
Deleted == "registration deleted"
Listed == "registrations listed"
NoSuchTeam == "team does not exist"
NoSuchUser == "user does not exist"
MembersListed == "members listed"
SubmissionsListed == "submissions listed"
AuthRequired == "documentation needs authentication"
WrongDocsLogin == "wrong documentation username or password"
Redirected == "redirect with token"
TokenUnknown == "not authorised or token no longer valid"
TokenExpired == "token expired"
Schema == "openapi schema"

---------------------------------------------------------------------------
(* Store helpers *)

\* INTEGER PRIMARY KEY of SQLite: the next rowid is the largest one plus one
NextId(rows) ==
    IF rows = {} THEN 1
    ELSE (CHOOSE r \in rows : \A q \in rows : q.id <= r.id).id + 1

\* Query.first() of a query whose rows come back in rowid order
First(rows) == CHOOSE r \in rows : \A q \in rows : r.id <= q.id

\* VerificationCode(email=, code=, expires_at=): is_used defaults to False
VerificationCodeRow(id, email, code, expires_at) ==
    [id |-> id, email |-> email, code |-> code,
     expires_at |-> expires_at, is_used |-> FALSE]

\* What a handler leaves behind: the response (status, detail, and in data the
\* usernames its body carries) and the four tables after it
Outcome(status, detail, data, t, m, c, s) ==
    [status |-> status, detail |-> detail, data |-> data,
     teams |-> t, members |-> m, codes |-> c, submissions |-> s]

\* raise HTTPException before any write: the session closes without a commit
Rejected(status, detail) ==
    Outcome(status, detail, {}, teams, members, codes, submissions)

\* a response of a handler that only reads
Answered(status, detail, data) ==
    Outcome(status, detail, data, teams, members, codes, submissions)

NoResponse == [op |-> "none", status |-> 0, detail |-> ""]

StoreOf(r) == <<r.teams, r.members, r.codes, r.submissions>>

---------------------------------------------------------------------------
(* POST /api/register *)

\* faulty variant: the username check looks at verified registrations only
UsernameTaken_VerifiedOnly(username) ==
    \E t \in teams : t.username = username /\ t.is_verified

\* existing_username: any registration, verified or not
UsernameTaken(username) == \E t \in teams : t.username = username

\* faulty variant: the email check looks at verified registrations only
EmailTaken_VerifiedOnly(email) ==
    \E t \in teams : t.email = email /\ t.is_verified

\* existing_email: any registration, verified or not
EmailTaken(email) == \E t \in teams : t.email = email

\* expires_at = datetime.utcnow() + timedelta(minutes=10)
CodeExpiry(issued_at) == issued_at + CodeTTL

\* faulty variant: only the expired unused codes are removed
StaleCodes_Expired(email) ==
    {c \in codes : c.email = email /\ c.is_used = FALSE /\ now > c.expires_at}

\* faulty variant: the earlier unused codes are left in the table
StaleCodes_None(email) == {}

\* the rows register_team removes before it inserts the new code
StaleCodes(email) == {c \in codes : c.email = email /\ c.is_used = FALSE}

NewMembers(team_id, list) ==
    LET base == NextId(members) IN
    {[id |-> base + i - 1, team_id |-> team_id,
      name |-> list[i].name, isLeader |-> list[i].isLeader] :
        i \in 1..Len(list)}

\* db.commit(): the code row, the unverified team and its members
Persisted(data, code, status, detail) ==
    LET kept == codes \ StaleCodes(data.email)
        db_code == VerificationCodeRow(NextId(kept), data.email, code,
                                       CodeExpiry(now))
        db_team == [id |-> NextId(teams), username |-> data.username,
                    email |-> data.email, password |-> data.password,
                    is_verified |-> FALSE]
    IN Outcome(status, detail, {},
               teams \cup {db_team},
               members \cup NewMembers(db_team.id, data.members),
               kept \cup {db_code},
               submissions)

\* faulty variant: a failed delivery undoes the registration
AfterSend_Rollback(data, code, email_sent) ==
    IF email_sent
    THEN Persisted(data, code, 200, CodeSent)
    ELSE Rejected(500, SendFailed)

\* send_verification_email after the commit: False or an exception gives 500
AfterSend(data, code, email_sent) ==
    IF email_sent
    THEN Persisted(data, code, 200, CodeSent)
    ELSE Persisted(data, code, 500, SendFailed)

\* The unique indexes on email and username (database.py:30-31) are never
\* reached while handlers run one at a time: the two checks refuse first.
\* The mail is sent after the commit, so a failed delivery (500) keeps the rows.
RegisterResult(data, code, email_sent) ==
    IF UsernameTaken(data.username)
    THEN Rejected(400, UsernameExists)
    ELSE IF EmailTaken(data.email)
    THEN Rejected(400, EmailExists)
    ELSE AfterSend(data, code, email_sent)

Install(op, r) ==
    /\ teams' = r.teams
    /\ members' = r.members
    /\ codes' = r.codes
    /\ submissions' = r.submissions
    /\ resp' = [op |-> op, status |-> r.status, detail |-> r.detail]
    /\ UNCHANGED <<now, gate, pending>>

Register ==
    \E data \in RegistrationData, code \in CodeValues, email_sent \in BOOLEAN :
        LET r == RegisterResult(data, code, email_sent) IN
        /\ \A row \in r.teams \cup r.codes : row.id <= MaxId
        /\ Install("register", r)

---------------------------------------------------------------------------
(* POST /api/verify *)

\* faulty variant: the lookup forgets the is_used filter
MatchingCodes_IgnoreUsed(data) ==
    {c \in codes : c.email = data.email /\ c.code = data.code}

MatchingCodes(data) ==
    {c \in codes : c.email = data.email /\ c.code = data.code
                   /\ c.is_used = FALSE}

\* faulty variant: a code is given a second lifetime before it counts as expired
IsExpired_Late(db_code) == now > db_code.expires_at + CodeTTL

\* faulty variant: the expiry is never looked at
IsExpired_Never(db_code) == FALSE

\* datetime.utcnow() > db_code.expires_at
IsExpired(db_code) == now > db_code.expires_at

\* faulty variant: refusing an expired code gives it a new lifetime
ExpiredOutcome_Renew(db_code) ==
    Outcome(400, CodeExpired, {}, teams, members,
            (codes \ {db_code})
                \cup {[db_code EXCEPT !.expires_at = CodeExpiry(now)]},
            submissions)

\* faulty variant: an expired code is removed when it is refused
ExpiredOutcome_Discard(db_code) ==
    Outcome(400, CodeExpired, {}, teams, members, codes \ {db_code},
            submissions)

\* raise HTTPException(400) for an expired code
ExpiredOutcome(db_code) == Rejected(400, CodeExpired)

\* faulty variant: the lookup wants a registration that is verified already
PendingTeams_Verified(email) ==
    {t \in teams : t.email = email /\ t.is_verified = TRUE}

PendingTeams(email) ==
    {t \in teams : t.email = email /\ t.is_verified = FALSE}

\* db_code.is_used = True
CodesAfterVerify(db_code) ==
    (codes \ {db_code}) \cup {[db_code EXCEPT !.is_used = TRUE]}

\* faulty variant: the write to the team is lost
TeamsAfterVerify_Lost(db_team) == teams

\* db_team.is_verified = True
TeamsAfterVerify(db_team) ==
    (teams \ {db_team}) \cup {[db_team EXCEPT !.is_verified = TRUE]}

VerifyResult(data) ==
    IF MatchingCodes(data) = {}
    THEN Rejected(400, NoMatchingCode)
    ELSE
        LET db_code == First(MatchingCodes(data)) IN
        IF IsExpired(db_code)
        THEN ExpiredOutcome(db_code)
        ELSE IF PendingTeams(data.email) = {}
        THEN Rejected(404, NoPendingTeam)
        ELSE
            LET db_team == First(PendingTeams(data.email)) IN
            Outcome(200, Registered, {db_team.username},
                    TeamsAfterVerify(db_team),
                    members,
                    CodesAfterVerify(db_code),
                    submissions)

Verify ==
    \E data \in VerifyCodeData : Install("verify", VerifyResult(data))

---------------------------------------------------------------------------
(* POST /api/login *)

\* username == data.username OR email == data.username
LoginMatches(name) ==
    {t \in teams : t.username = name \/ t.email = name}

\* faulty variant: a successful login clears the codes of the account
LoginAnswer_Cleanup(user, data) ==
    IF ~user.is_verified
    THEN Rejected(403, NotVerified)
    ELSE IF user.password # data.password
    THEN Rejected(401, BadCredentials)
    ELSE Outcome(200, LoggedIn, {user.username}, teams, members,
                 {c \in codes : c.email # user.email}, submissions)

\* the handler's answer once first() has returned `user`
LoginAnswer(user, data) ==
    IF ~user.is_verified
    THEN Rejected(403, NotVerified)
    ELSE IF user.password # data.password
    THEN Rejected(401, BadCredentials)
    ELSE Answered(200, LoggedIn, {user.username})

\* first() has no ORDER BY: when a username of one row equals the email of
\* another, either row may come back
LoginResults(data) ==
    IF LoginMatches(data.username) = {}
    THEN {Rejected(401, BadCredentials)}
    ELSE {LoginAnswer(user, data) : user \in LoginMatches(data.username)}

Login ==
    \E data \in LoginData : \E r \in LoginResults(data) : Install("login", r)

---------------------------------------------------------------------------
(* GET /get/registrations/all *)

\* faulty variant: the listing forgets the is_verified filter
GetRegistrationsResult_All ==
    Answered(200, Listed, {reg.username : reg \in teams})

GetRegistrationsResult ==
    LET registrations == {t \in teams : t.is_verified = TRUE} IN
    Answered(200, Listed, {reg.username : reg \in registrations})

GetRegistrations == Install("list", GetRegistrationsResult)

---------------------------------------------------------------------------
(* DELETE /delete/member/{username} *)

\* faulty variant: the registration is switched off, not removed
DeleteResult_Deactivate(username) ==
    LET found == {t \in teams : t.username = username} IN
    IF found = {}
    THEN Rejected(404, NoSuchUsername)
    ELSE
        LET registration == First(found) IN
        Outcome(200, Deleted, {},
                (teams \ {registration})
                    \cup {[registration EXCEPT !.is_verified = FALSE]},
                members, codes, submissions)

\* faulty variant: the member rows are left behind
DeleteResult_NoCascade(username) ==
    LET found == {t \in teams : t.username = username} IN
    IF found = {}
    THEN Rejected(404, NoSuchUsername)
    ELSE Outcome(200, Deleted, {},
                 teams \ {First(found)}, members, codes, submissions)

DeleteResult(username) ==
    LET found == {t \in teams : t.username = username} IN
    IF found = {}
    THEN Rejected(404, NoSuchUsername)
    ELSE
        LET registration == First(found) IN
        Outcome(200, Deleted, {},
                teams \ {registration},
                {m \in members : m.team_id # registration.id},
                codes,
                submissions)

Delete ==
    \E username \in Usernames : Install("delete", DeleteResult(username))

---------------------------------------------------------------------------
(* POST /api/submission *)

\* faulty variant: the lookup forgets the is_verified filter
VerifiedTeams_Any(username) == {t \in teams : t.username = username}

VerifiedTeams(username) ==
    {t \in teams : t.username = username /\ t.is_verified = TRUE}

SubmitResult(data) ==
    IF VerifiedTeams(data.username) = {}
    THEN Rejected(404, UserNotFound)
    ELSE
        LET submission == [id |-> NextId(submissions),
                           username |-> data.username] IN
        Outcome(200, Submitted, {},
                teams, members, codes, submissions \cup {submission})

Submit ==
    \E data \in SubmissionData :
        LET r == SubmitResult(data) IN
        /\ Cardinality(r.submissions) <= MaxSubs
        /\ Install("submit", r)

---------------------------------------------------------------------------
(* GET /api/team/{username}/members, GET /api/submission/{username},
   GET /api/submissions/all *)

GetTeamMembersResult(username) ==
    IF VerifiedTeams(username) = {}
    THEN Rejected(404, NoSuchTeam)
    ELSE
        LET team == First(VerifiedTeams(username)) IN
        Answered(200, MembersListed,
                 {[name |-> member.name, isLeader |-> member.isLeader] :
                     member \in {m \in members : m.team_id = team.id}})

GetSubmissionsResult(username) ==
    IF VerifiedTeams(username) = {}
    THEN Rejected(404, NoSuchUser)
    ELSE Answered(200, SubmissionsListed,
                  {sub.id : sub \in {x \in submissions : x.username = username}})

GetAllSubmissionsResult ==
    Answered(200, SubmissionsListed,
             {[id |-> sub.id, username |-> sub.username] : sub \in submissions})

GetTeamMembers ==
    \E username \in Usernames :
        Install("members", GetTeamMembersResult(username))

GetSubmissions ==
    \E username \in Usernames :
        Install("submissions", GetSubmissionsResult(username))

GetAllSubmissions == Install("all-submissions", GetAllSubmissionsResult)

---------------------------------------------------------------------------
(* The token gate of the documentation: /docs-auth, /redoc-auth, /docs,
   /redoc, /openapi.json *)

NoTokens == [k \in {} |-> [username |-> "", expires |-> 0]]

\* what a gate handler leaves behind: the response and the dict
GateOutcome(status, detail, tokens) ==
    [status |-> status, detail |-> detail, tokens |-> tokens]

\* faulty variant: one matching half of the credentials is enough
CredentialsOk_Either(credentials) ==
    credentials.username = DocsUsername \/ credentials.password = DocsPassword

\* compare_digest on the username and on the password
CredentialsOk(credentials) ==
    credentials.username = DocsUsername /\ credentials.password = DocsPassword

\* verify_docs_credentials: 401 without or with wrong credentials
CredentialsResult(credentials) ==
    IF ~credentials.present
    THEN GateOutcome(401, AuthRequired, docs_tokens)
    ELSE IF ~CredentialsOk(credentials)
    THEN GateOutcome(401, WrongDocsLogin, docs_tokens)
    ELSE GateOutcome(200, credentials.username, docs_tokens)

\* faulty variant: issuance keeps every entry
LiveTokens_All == DOMAIN docs_tokens

\* the keys the dict comprehension keeps: utcnow() <= v["expires"]
LiveTokens == {k \in DOMAIN docs_tokens : docs_now <= docs_tokens[k].expires}

\* docs_auth and redoc_auth after the credentials check: prune, then store
\* the new token with expiry utcnow() + 5 seconds
Issue(username, token) ==
    [k \in LiveTokens \cup {token} |->
        IF k = token
        THEN [username |-> username, expires |-> docs_now + DocsTTL]
        ELSE docs_tokens[k]]

AuthResult(credentials, token) ==
    LET c == CredentialsResult(credentials) IN
    IF c.status # 200
    THEN c
    ELSE GateOutcome(302, Redirected, Issue(c.detail, token))

\* faulty variant: a token is taken out of the dict when it is accepted
AcceptedOutcome_Consume(token) ==
    GateOutcome(200, docs_tokens[token].username,
                [k \in DOMAIN docs_tokens \ {token} |-> docs_tokens[k]])

\* return token_data["username"]: the dict is left alone
AcceptedOutcome(token) ==
    GateOutcome(200, docs_tokens[token].username, docs_tokens)

\* verify_docs_token
TokenResult(token) ==
    IF token = NoToken \/ token \notin DOMAIN docs_tokens
    THEN GateOutcome(401, TokenUnknown, docs_tokens)
    ELSE IF docs_now > docs_tokens[token].expires
    THEN GateOutcome(401, TokenExpired,
                     [k \in DOMAIN docs_tokens \ {token} |-> docs_tokens[k]])
    ELSE AcceptedOutcome(token)

GateInstall(op, r) ==
    /\ docs_tokens' = r.tokens
    /\ resp' = [op |-> op, status |-> r.status, detail |-> r.detail]
    /\ UNCHANGED <<store, now, docs_now, pending>>

\* uuid4 does not repeat a token the dict still holds
DocsAuth ==
    \E credentials \in Credentials, token \in Tokens \ DOMAIN docs_tokens :
        GateInstall("docs-auth", AuthResult(credentials, token))

RedocAuth ==
    \E credentials \in Credentials, token \in Tokens \ DOMAIN docs_tokens :
        GateInstall("redoc-auth", AuthResult(credentials, token))

\* the page of /docs and /redoc names openapi_url=/openapi.json?token={token}
PageResult(token) ==
    LET t == TokenResult(token) IN
    IF t.status # 200 THEN t ELSE GateOutcome(200, token, t.tokens)

\* /openapi.json answers with the schema
SchemaResult(token) ==
    LET t == TokenResult(token) IN
    IF t.status # 200 THEN t ELSE GateOutcome(200, Schema, t.tokens)

GetDocumentation ==
    \E token \in TokenParams : GateInstall("docs", PageResult(token))

GetRedocDocumentation ==
    \E token \in TokenParams : GateInstall("redoc", PageResult(token))

GetOpenApiEndpoint ==
    \E token \in TokenParams : GateInstall("openapi", SchemaResult(token))

DocsTick ==
    /\ docs_now + DocsTickSeconds <= MaxDocsTime
    /\ docs_now' = docs_now + DocsTickSeconds
    /\ resp' = NoResponse
    /\ UNCHANGED <<store, now, docs_tokens, pending>>

---------------------------------------------------------------------------
(* POST /api/register served by several worker processes on one database:
   a request runs its two existence checks, and its writes reach the
   database at db.commit(), after another worker's commit or before it *)

\* faulty variant: the table has no unique index
UniqueViolated_Off(data) == FALSE

\* unique=True on email and on username
UniqueViolated(data) ==
    \E t \in teams : t.email = data.email \/ t.username = data.username

\* db.commit() of register_team: the INSERT that breaks a unique index raises
\* IntegrityError, which the handler does not catch; the transaction, with
\* its delete of the earlier codes, is rolled back and the answer is a 500
CommitResult(data, code, email_sent) ==
    IF UniqueViolated(data)
    THEN Rejected(500, IntegrityFailure)
    ELSE AfterSend(data, code, email_sent)

\* the two existence checks: 400 when one finds a row, else the request
\* goes on to its writes
RegCheck(w) ==
    /\ pending[w] = Idle
    /\ \E data \in RegistrationData :
        IF UsernameTaken(data.username)
        THEN Install("register", Rejected(400, UsernameExists))
        ELSE IF EmailTaken(data.email)
        THEN Install("register", Rejected(400, EmailExists))
        ELSE /\ pending' = [pending EXCEPT ![w] = [pc |-> "checked", data |-> data]]
             /\ UNCHANGED <<store, now, gate, resp>>

RegCommit(w) ==
    /\ pending[w] # Idle
    /\ \E code \in CodeValues, email_sent \in BOOLEAN :
        LET r == CommitResult(pending[w].data, code, email_sent) IN
        /\ \A row \in r.teams \cup r.codes : row.id <= MaxId
        /\ teams' = r.teams
        /\ members' = r.members
        /\ codes' = r.codes
        /\ submissions' = r.submissions
        /\ resp' = [op |-> "register", status |-> r.status, detail |-> r.detail]
        /\ pending' = [pending EXCEPT ![w] = Idle]
        /\ UNCHANGED <<now, gate>>

---------------------------------------------------------------------------
(* POST /api/verify served by several worker processes on one database: a
   request reads the code row and the team row into its session, and its two
   UPDATEs, each by primary key, reach the database at db.commit() *)

\* UPDATE ... SET is_used = 1 WHERE id = db_code.id
CodesMarkedUsed(id) ==
    {IF c.id = id THEN [c EXCEPT !.is_used = TRUE] ELSE c : c \in codes}

\* UPDATE ... SET is_verified = 1 WHERE id = db_team.id
TeamsMarkedVerified(id) ==
    {IF t.id = id THEN [t EXCEPT !.is_verified = TRUE] ELSE t : t \in teams}

\* db.commit() of verify_code: the session writes the attributes it changed
\* on the rows it loaded and does not look at their present values; an
\* UPDATE that finds its row gone raises, and nothing is written
VerifyCommitResult(loaded) ==
    IF \/ \A c \in codes : c.id # loaded.db_code.id
       \/ \A t \in teams : t.id # loaded.db_team.id
    THEN Rejected(500, StaleFailure)
    ELSE Outcome(200, Registered, {loaded.db_team.username},
                 TeamsMarkedVerified(loaded.db_team.id),
                 members,
                 CodesMarkedUsed(loaded.db_code.id),
                 submissions)

\* the reads and the checks of verify_code, up to the first assignment
VerRead(w) ==
    /\ pending[w] = Idle
    /\ \E data \in VerifyCodeData :
        LET r == VerifyResult(data) IN
        IF r.status # 200
        THEN Install("verify", r)
        ELSE /\ pending' = [pending EXCEPT ![w] =
                    [pc |-> "read",
                     db_code |-> First(MatchingCodes(data)),
                     db_team |-> First(PendingTeams(data.email))]]
             /\ UNCHANGED <<store, now, gate, resp>>

VerCommit(w) ==
    /\ pending[w] # Idle
    /\ LET r == VerifyCommitResult(pending[w]) IN
        /\ teams' = r.teams
        /\ members' = r.members
        /\ codes' = r.codes
        /\ submissions' = r.submissions
        /\ resp' = [op |-> "verify", status |-> r.status, detail |-> r.detail]
        /\ pending' = [pending EXCEPT ![w] = Idle]
        /\ UNCHANGED <<now, gate>>

---------------------------------------------------------------------------
(* The clock *)

Tick ==
    /\ now + TickMinutes <= MaxTime
    /\ now' = now + TickMinutes
    /\ resp' = NoResponse
    /\ UNCHANGED <<store, gate, pending>>

---------------------------------------------------------------------------

Init ==
    /\ teams = {}
    /\ members = {}
    /\ codes = {}
    /\ submissions = {}
    /\ now = 0
    /\ resp = NoResponse
    /\ docs_tokens = NoTokens
    /\ docs_now = 0
    /\ pending = [w \in Workers |-> Idle]

Next ==
    \/ Register
    \/ Verify
    \/ Login
    \/ GetRegistrations
    \/ Delete
    \/ Submit
    \/ Tick

Spec == Init /\ [][Next]_vars

\* the token gate alone: it shares no state with the store
DocsNext ==
    \/ DocsAuth
    \/ RedocAuth
    \/ GetDocumentation
    \/ GetRedocDocumentation
    \/ GetOpenApiEndpoint
    \/ DocsTick

SpecDocs == Init /\ [][DocsNext]_vars

\* the requests of an account's life around its logins, together with token
\* issuance, at one instant: registrations stay and no code expires
SessionNext ==
    \/ Register
    \/ Verify
    \/ Login
    \/ GetRegistrations
    \/ Submit
    \/ GetTeamMembers
    \/ GetSubmissions
    \/ GetAllSubmissions
    \/ DocsAuth

SpecSession == Init /\ [][SessionNext]_vars

\* registrations racing in several workers, with verify between them
RaceNext ==
    \/ \E w \in Workers : RegCheck(w)
    \/ \E w \in Workers : RegCommit(w)
    \/ Verify

SpecRace == Init /\ [][RaceNext]_vars

\* verify requests racing in several workers, with register and delete
VerifyRaceNext ==
    \/ Register
    \/ Delete
    \/ \E w \in Workers : VerRead(w)
    \/ \E w \in Workers : VerCommit(w)

SpecVerifyRace == Init /\ [][VerifyRaceNext]_vars

---------------------------------------------------------------------------
(* Properties *)

VerifyOf(c) == VerifyResult([email |-> c.email, code |-> c.code])

Listing == GetRegistrationsResult.data

RegisterCommitted(r) == r.op = "register" /\ r.status \in {200, 500}

\* C1: in every reachable state no two registrations (verified or not) share
\* a username, and no two share an email.
C1_UniqueUsernameAndEmail ==
    \A t1, t2 \in teams :
        t1 # t2 => t1.username # t2.username /\ t1.email # t2.email

\* a verified and an unverified registration stand side by side and a
\* register request has just been turned away
C1_Witness ==
    /\ resp.op = "register" /\ resp.status = 400
    /\ \E t1, t2 \in teams : t1.is_verified /\ ~t2.is_verified

\* C2: a register request whose username or whose email is that of an
\* existing registration, verified or not, is answered 400 and leaves every
\* table as it was.
C2_DuplicateRegisterRejected ==
    \A data \in RegistrationData, code \in CodeValues, email_sent \in BOOLEAN :
        (\E t \in teams : t.username = data.username \/ t.email = data.email)
        => LET r == RegisterResult(data, code, email_sent) IN
           r.status = 400 /\ StoreOf(r) = store

\* a register request was refused for its email while the only registration
\* is unverified
C2_Witness ==
    /\ resp = [op |-> "register", status |-> 400, detail |-> EmailExists]
    /\ teams # {}
    /\ \A t \in teams : ~t.is_verified

\* C3 as claimed: once verify(email, code) has succeeded (a used row holds the
\* pair), a verify request with that pair is answered 400 "no matching code",
\* whatever happened in between.
C3_NeverAcceptedAgain ==
    \A c \in codes :
        c.is_used =>
            VerifyOf(c).status = 400 /\ VerifyOf(c).detail = NoMatchingCode

\* C3 amended: right after a code is accepted a verify request with its pair
\* is answered 400 "no matching code", and that answer changes only in a step
\* in which a register request issues the same code for the same email anew.
C3_AcceptedOncePerIssue ==
    /\ [][\A c \in codes' :
            (c.is_used /\ c \notin codes) =>
                (VerifyOf(c).status = 400
                 /\ VerifyOf(c).detail = NoMatchingCode)']_vars
    /\ [][\A c \in codes :
            (/\ c.is_used
             /\ VerifyOf(c).detail = NoMatchingCode
             /\ (VerifyOf(c).detail # NoMatchingCode)')
            => /\ RegisterCommitted(resp')
               /\ \E n \in codes' \ codes :
                    n.email = c.email /\ n.code = c.code /\ ~n.is_used]_vars

\* a used code was replayed and refused
C3_Witness ==
    /\ resp = [op |-> "verify", status |-> 400, detail |-> NoMatchingCode]
    /\ \E c \in codes : c.is_used /\ VerifyOf(c).detail = NoMatchingCode

\* C4: every code is issued with expiry = issue time + 10 minutes, and a
\* verify request that arrives after the expiry of the unused code it matches
\* is answered 400 and changes nothing, even when the registration is still
\* waiting for verification.
C4_ExpiredCodeRejected ==
    /\ [](\A c \in codes :
            (~c.is_used /\ now > c.expires_at) =>
                VerifyOf(c).status = 400 /\ StoreOf(VerifyOf(c)) = store)
    /\ [][RegisterCommitted(resp') =>
            \E t \in teams' \ teams :
                \A c \in codes' :
                    (c.email = t.email /\ ~c.is_used)
                    => c.expires_at = now + CodeTTL]_vars

\* an expired code was presented for a registration that still waits
C4_Witness ==
    /\ resp = [op |-> "verify", status |-> 400, detail |-> CodeExpired]
    /\ \E t \in teams, c \in codes :
        ~t.is_verified /\ c.email = t.email /\ ~c.is_used
        /\ now > c.expires_at

\* C5: the listing holds exactly the verified registrations, and a
\* registration enters the listing only in a step in which a verify request
\* succeeds.
C5_ListingOnlyVerified ==
    /\ [](/\ GetRegistrationsResult.status = 200
          /\ Listing = {t.username : t \in {x \in teams : x.is_verified}})
    /\ [][\A u \in Usernames :
            (u \notin Listing /\ u \in Listing')
            => resp'.op = "verify" /\ resp'.status = 200]_vars

\* the listing was asked for while one registration was verified and
\* another was not
C5_Witness ==
    /\ resp.op = "list"
    /\ \E t1, t2 \in teams : t1.is_verified /\ ~t2.is_verified

\* C6 as claimed: a login request whose name is the username or the email of
\* an unverified registration does not succeed.
C6_UnverifiedLoginFails ==
    \A data \in LoginData :
        (\E t \in teams :
            ~t.is_verified
            /\ (t.username = data.username \/ t.email = data.username))
        => \A r \in LoginResults(data) : r.status # 200

\* C7: a submission for a username without a verified registration is
\* answered 404 and stores nothing; every submission row is added while a
\* verified registration holds its username.
C7_SubmitNeedsVerified ==
    /\ [](\A data \in SubmissionData :
            VerifiedTeams(data.username) = {}
            => /\ SubmitResult(data).status = 404
               /\ StoreOf(SubmitResult(data)) = store)
    /\ [][\A s \in submissions' \ submissions :
            \E t \in teams : t.username = s.username /\ t.is_verified]_vars

\* a submission for an unverified registration was refused, after one for a
\* verified registration had been stored
C7_Witness ==
    /\ resp = [op |-> "submit", status |-> 404, detail |-> UserNotFound]
    /\ \E t \in teams : ~t.is_verified
    /\ submissions # {}

\* C8: a register request that persists a team also issues a code that
\* verifies it; while the team exists unverified and the code has not expired,
\* verify(email, code) succeeds; the step that verifies a team puts it in the
\* listing, and it stays there until a delete request succeeds.
C8_RegisterThenVerifyLists ==
    /\ [](\A t \in teams, c \in codes :
            (~t.is_verified /\ c.email = t.email /\ ~c.is_used
             /\ now <= c.expires_at)
            => /\ VerifyOf(c).status = 200
               /\ [t EXCEPT !.is_verified = TRUE] \in VerifyOf(c).teams)
    /\ [][RegisterCommitted(resp') =>
            \E t \in teams' \ teams, c \in codes' :
                /\ c.email = t.email /\ ~c.is_used
                /\ (VerifyOf(c).status = 200)']_vars
    /\ [][(resp'.op = "verify" /\ resp'.status = 200) =>
            \E t \in teams' \ teams :
                t.is_verified /\ t.username \in Listing']_vars
    /\ [][\A u \in Listing :
            u \in Listing'
            \/ (resp'.op = "delete" /\ resp'.status = 200)]_vars

\* a verify request has just succeeded and its team is listed
C8_Witness ==
    /\ resp = [op |-> "verify", status |-> 200, detail |-> Registered]
    /\ Listing # {}

\* C9: a verified registration stays as it is in every step, except a step in
\* which a delete request succeeds and removes it.
C9_VerifiedIsTerminal ==
    [][\A t \in teams :
        t.is_verified =>
            \/ t \in teams'
            \/ /\ resp'.op = "delete" /\ resp'.status = 200
               /\ \A t2 \in teams' : t2.id # t.id /\ t2.username # t.username
      ]_vars

\* a delete request succeeded while a verified registration stays in place
C9_Witness ==
    /\ resp = [op |-> "delete", status |-> 200, detail |-> Deleted]
    /\ \E t \in teams : t.is_verified

\* C10: a verify request that fails, for whichever of its three reasons,
\* leaves every table as it was.
C10_FailedVerifyChangesNothing ==
    \A data \in VerifyCodeData :
        LET r == VerifyResult(data) IN
        r.status # 200 =>
            /\ StoreOf(r) = store
            /\ <<r.status, r.detail>> \in
                {<<400, NoMatchingCode>>, <<400, CodeExpired>>,
                 <<404, NoPendingTeam>>}

\* a verify request found its code but no registration waiting for it
C10_Witness ==
    /\ resp = [op |-> "verify", status |-> 404, detail |-> NoPendingTeam]
    /\ codes # {}

Used(c) == [c EXCEPT !.is_used = TRUE]
Verified(t) == [t EXCEPT !.is_verified = TRUE]

\* C11: the code is marked used and its registration is marked verified in
\* the same step: a step marks a code used exactly when it marks a waiting
\* registration of that email verified.
C11_VerifyWritesTogether ==
    [][/\ \A c \in codes :
            (~c.is_used /\ Used(c) \in codes')
            => \E t \in teams :
                /\ t.email = c.email /\ ~t.is_verified
                /\ Verified(t) \in teams'
       /\ \A t \in teams :
            (~t.is_verified /\ Verified(t) \in teams')
            => \E c \in codes :
                /\ c.email = t.email /\ ~c.is_used
                /\ Used(c) \in codes']_vars

\* a verify request has just succeeded: its code is used, its team verified
C11_Witness ==
    /\ resp = [op |-> "verify", status |-> 200, detail |-> Registered]
    /\ \E c \in codes, t \in teams :
        c.is_used /\ t.email = c.email /\ t.is_verified

\* C12: in every reachable state an email has at most one unused code, and an
\* unused code row appears only in a step in which a register request commits.
C12_OneUnusedCodePerEmail ==
    /\ [](\A c1, c2 \in codes :
            (c1.email = c2.email /\ ~c1.is_used /\ ~c2.is_used) => c1 = c2)
    /\ [][(\E c \in codes' \ codes : ~c.is_used)
            => RegisterCommitted(resp')]_vars
    /\ [][(\E c \in codes' : \A o \in codes : o.id # c.id)
            => RegisterCommitted(resp')]_vars

\* an email was registered, deleted and registered again: its used code and
\* its one unused code stand side by side
C12_Witness ==
    /\ RegisterCommitted(resp)
    /\ \E c1, c2 \in codes : c1.email = c2.email /\ c1.is_used /\ ~c2.is_used

\* C13: a register request whose mail is not delivered is answered 500 and
\* still leaves the unverified team, its members and its code in the store;
\* while that registration is in the store, a register request with its
\* username or its email is answered 400 and leaves it unverified.
C13_FailedDeliveryKeepsRows ==
    /\ [](\A data \in RegistrationData, code \in CodeValues :
            LET r == RegisterResult(data, code, FALSE) IN
            r.status # 400 =>
                /\ r.status = 500
                /\ \E t \in r.teams \ teams :
                    /\ t.username = data.username /\ t.email = data.email
                    /\ ~t.is_verified
                    /\ \E m \in r.members : m.team_id = t.id
                    /\ \E c \in r.codes :
                        c.email = t.email /\ c.code = code /\ ~c.is_used)
    /\ [][(resp'.op = "register" /\ resp'.status = 500) =>
            \E t \in teams' \ teams :
                /\ ~t.is_verified
                /\ \E m \in members' : m.team_id = t.id
                /\ \E c \in codes' : c.email = t.email /\ ~c.is_used
                /\ \A data \in RegistrationData, code \in CodeValues,
                      email_sent \in BOOLEAN :
                    (data.username = t.username \/ data.email = t.email)
                    => (/\ RegisterResult(data, code, email_sent).status = 400
                        /\ t \in RegisterResult(data, code, email_sent).teams)'
          ]_vars

\* the mail of a registration failed, and it is in the store unverified
C13_Witness ==
    /\ resp = [op |-> "register", status |-> 500, detail |-> SendFailed]
    /\ \E t \in teams : ~t.is_verified
    /\ members # {} /\ codes # {}

\* C18 as claimed: a verify request succeeds only at a time strictly earlier
\* than the expires_at of the code it consumes.
C18_AcceptedStrictlyBeforeExpiry ==
    [][\A c \in codes :
        (~c.is_used /\ Used(c) \in codes') => now < c.expires_at]_vars

\* C18 amended: a verify request succeeds only at a time not later than the
\* expires_at of the code it consumes; at expires_at itself it still succeeds.
C18_AcceptedUntilExpiry ==
    /\ [][\A c \in codes :
            (~c.is_used /\ Used(c) \in codes') => now <= c.expires_at]_vars
    /\ [](\A t \in teams, c \in codes :
            (~t.is_verified /\ c.email = t.email /\ ~c.is_used
             /\ now = c.expires_at)
            => VerifyOf(c).status = 200)

\* a code was accepted at the very time it expires
C18_Witness ==
    /\ resp = [op |-> "verify", status |-> 200, detail |-> Registered]
    /\ \E c \in codes : c.is_used /\ now = c.expires_at

\* C20: delete removes the registration of the username with all of its
\* member rows, verified or not, and answers 404 without a change when there
\* is none; every member row belongs to a registration; after a delete the
\* username and the email can be registered again.
C20_DeleteCascades ==
    /\ [](\A m \in members : \E t \in teams : t.id = m.team_id)
    /\ [](\A username \in Usernames :
            LET r == DeleteResult(username)
                found == {t \in teams : t.username = username} IN
            IF found = {}
            THEN r.status = 404 /\ StoreOf(r) = store
            ELSE /\ r.status = 200
                 /\ r.teams = teams \ found
                 /\ r.members =
                      {m \in members : \A t \in found : m.team_id # t.id}
                 /\ r.codes = codes /\ r.submissions = submissions)
    /\ [][(resp'.op = "delete" /\ resp'.status = 200) =>
            \E t \in teams \ teams' :
                \A data \in RegistrationData, code \in CodeValues :
                    (data.username = t.username /\ data.email = t.email)
                    => (RegisterResult(data, code, TRUE).status = 200)']_vars

\* an unverified registration was deleted while another one, with its
\* member, stays
C20_Witness ==
    /\ resp = [op |-> "delete", status |-> 200, detail |-> Deleted]
    /\ \E t \in teams : \E m \in members : m.team_id = t.id
    /\ \E c \in codes : ~c.is_used /\ \A t \in teams : t.email # c.email


---------------------------------------------------------------------------
(* The token gate *)

AuthOps == {"docs-auth", "redoc-auth"}
FetchOps == {"docs", "redoc", "openapi"}
Issued(r) == r.op \in AuthOps /\ r.status = 302
Fetched(r) == r.op \in FetchOps /\ r.status = 200
Correct(credentials) ==
    /\ credentials.present
    /\ credentials.username = DocsUsername
    /\ credentials.password = DocsPassword

(* C14: a fetch of /docs, /redoc or /openapi.json succeeds only with a token
   that is in the mapping and whose expiry has not passed; every entry of
   the mapping was put there by a /docs-auth or /redoc-auth request with the
   correct credentials, with expiry five seconds after its issue; a request
   with missing or wrong credentials gets 401 and adds nothing *)
C14_FetchNeedsLiveIssuedToken ==
    /\ [](\A token \in TokenParams :
            TokenResult(token).status = 200 =>
                /\ token \in DOMAIN docs_tokens
                /\ docs_now <= docs_tokens[token].expires)
    /\ [](\A credentials \in Credentials, token \in Tokens \ DOMAIN docs_tokens :
            LET r == AuthResult(credentials, token) IN
            IF Correct(credentials)
            THEN r.status = 302
            ELSE r.status = 401 /\ r.tokens = docs_tokens)
    /\ [](\A k \in DOMAIN docs_tokens :
            /\ docs_tokens[k].username = DocsUsername
            /\ docs_tokens[k].expires <= docs_now + DocsTTL)
    /\ [][Fetched(resp') =>
            \E token \in DOMAIN docs_tokens :
                docs_now <= docs_tokens[token].expires]_vars
    /\ [][\A k \in DOMAIN docs_tokens' :
            (k \notin DOMAIN docs_tokens \/ docs_tokens'[k] # docs_tokens[k]) =>
                /\ Issued(resp')
                /\ docs_tokens'[k].expires = docs_now + DocsTTL]_vars

C14_Witness ==
    /\ Fetched(resp)
    /\ \E k \in DOMAIN docs_tokens : docs_now = docs_tokens[k].expires

(* C15: a successful token check leaves the mapping unchanged; the token a
   served /docs or /redoc page carries is still accepted by the next fetch,
   and an accepted token stays accepted as long as the clock has not moved
   past its window *)
C15_TokenNotConsumed ==
    /\ [](\A token \in TokenParams :
            TokenResult(token).status = 200 =>
                TokenResult(token).tokens = docs_tokens)
    /\ []((resp.op \in {"docs", "redoc"} /\ resp.status = 200) =>
            /\ SchemaResult(resp.detail).status = 200
            /\ PageResult(resp.detail).status = 200)
    /\ [][Fetched(resp') => docs_tokens' = docs_tokens]_vars
    /\ [][\A token \in DOMAIN docs_tokens :
            docs_now' <= docs_tokens[token].expires =>
                /\ token \in DOMAIN docs_tokens'
                /\ docs_tokens'[token] = docs_tokens[token]]_vars

C15_Witness ==
    /\ resp.op = "docs"
    /\ resp.status = 200
    /\ docs_now > 0
    /\ SchemaResult(resp.detail).status = 200

\* the entries whose expiry has not passed
Unexpired ==
    {k \in DOMAIN docs_tokens : ~(docs_now > docs_tokens[k].expires)}

(* C16 as stated: issuance removes every expired entry before inserting and
   a token check never removes an entry *)
C16_PrunedOnlyByIssuance ==
    /\ \A token \in Tokens \ DOMAIN docs_tokens :
        DOMAIN (AuthResult([present |-> TRUE, username |-> DocsUsername,
                            password |-> DocsPassword], token).tokens)
            = Unexpired \cup {token}
    /\ \A token \in TokenParams :
        DOMAIN (TokenResult(token).tokens) = DOMAIN docs_tokens

(* C16 amended: each issuance removes every expired entry before inserting
   the new token; a token check removes the presented token when that token
   is in the mapping and expired, and removes nothing otherwise; no other
   step removes an entry *)
C16_PrunedByIssuanceAndExpiredAccess ==
    /\ [](\A credentials \in Credentials, token \in Tokens \ DOMAIN docs_tokens :
            LET r == AuthResult(credentials, token) IN
            r.status = 302 =>
                /\ DOMAIN r.tokens = Unexpired \cup {token}
                /\ \A k \in Unexpired : r.tokens[k] = docs_tokens[k])
    /\ [](\A token \in TokenParams :
            LET r == TokenResult(token)
                dead == token \in DOMAIN docs_tokens
                        /\ docs_now > docs_tokens[token].expires
            IN  /\ DOMAIN r.tokens =
                     DOMAIN docs_tokens \ (IF dead THEN {token} ELSE {})
                /\ \A k \in DOMAIN r.tokens : r.tokens[k] = docs_tokens[k]
                /\ dead => r.status = 401)
    /\ [][\A k \in DOMAIN docs_tokens \ DOMAIN docs_tokens' :
            /\ docs_now > docs_tokens[k].expires
            /\ \/ Issued(resp')
               \/ resp'.op \in FetchOps /\ resp'.detail = TokenExpired]_vars

C16_Witness ==
    /\ resp.op \in FetchOps
    /\ resp.detail = TokenExpired
    /\ docs_tokens # NoTokens


---------------------------------------------------------------------------
(* Login *)

(* C17: a login request, successful or not, leaves the store and the token
   mapping unchanged, and what submit, the listing, members, submissions and
   delete answer and write is the same after the login as before it *)
C17_LoginHasNoEffect ==
    /\ [](\A data \in LoginData : \A r \in LoginResults(data) :
            StoreOf(r) = store)
    /\ [][resp'.op = "login" =>
            /\ store' = store
            /\ gate' = gate
            /\ \A data \in SubmissionData : SubmitResult(data)' = SubmitResult(data)
            /\ GetRegistrationsResult' = GetRegistrationsResult
            /\ GetAllSubmissionsResult' = GetAllSubmissionsResult
            /\ \A username \in Usernames :
                /\ GetTeamMembersResult(username)' = GetTeamMembersResult(username)
                /\ GetSubmissionsResult(username)' = GetSubmissionsResult(username)
                /\ DeleteResult(username)' = DeleteResult(username)]_vars

C17_Witness ==
    /\ resp.op = "login"
    /\ resp.status = 200
    /\ docs_tokens # NoTokens
    /\ submissions # {}
    /\ \E c \in codes : c.is_used


---------------------------------------------------------------------------
(* Racing registrations *)

Checked(w) == pending[w] # Idle
Collides(d, e) == d.username = e.username \/ d.email = e.email

(* C19: two register requests with the same username or the same email can
   both be past the existence checks; when the second of them commits, the
   unique index refuses its row, the store keeps one registration per
   username and per email, nothing of the losing request is written, and its
   answer is the unhandled 500, not the 400 of the handler's checks *)
C19_RaceStoppedByUniqueIndexOnly ==
    /\ [](\A t1, t2 \in teams :
            (t1.username = t2.username \/ t1.email = t2.email) => t1 = t2)
    /\ [][\A w \in Workers :
            (Checked(w) /\ ~Checked(w)'
                /\ \E t \in teams : Collides(t, pending[w].data)) =>
                /\ store' = store
                /\ resp'.op = "register"
                /\ resp'.status = 500
                /\ resp'.detail \notin {UsernameExists, EmailExists}]_vars
    /\ [][\A w \in Workers :
            (~Checked(w) /\ Checked(w)') =>
                /\ ~UsernameTaken(pending'[w].data.username)
                /\ ~EmailTaken(pending'[w].data.email)
                /\ store' = store]_vars

C19_Witness ==
    /\ resp.op = "register"
    /\ resp.detail = IntegrityFailure
    /\ \E w \in Workers : ~Checked(w)
    /\ Cardinality(teams) = 1


---------------------------------------------------------------------------
(* Registrations whose code has run out *)

\* the unused codes a verify request for the registration could match
OpenCodes(t) == {c \in codes : c.email = t.email /\ ~c.is_used}

\* an unverified registration all of whose open codes have expired
Stuck(t) ==
    /\ t \in teams
    /\ ~t.is_verified
    /\ OpenCodes(t) # {}
    /\ \A c \in OpenCodes(t) : now > c.expires_at

(* C21: once the code of an unverified registration has expired, every
   register request with its username or its email answers 400 and writes
   nothing, every verify request for its email answers 400 and writes
   nothing, and every step leaves the registration in place, unverified and
   with the same expired codes, unless the step is a successful delete of
   its username *)
C21_ExpiredRegistrationStaysStuck ==
    /\ [](\A t \in teams : Stuck(t) =>
            /\ \A data \in RegistrationData, code \in CodeValues,
                  email_sent \in BOOLEAN :
                (data.username = t.username \/ data.email = t.email) =>
                    LET r == RegisterResult(data, code, email_sent) IN
                    r.status = 400 /\ StoreOf(r) = store
            /\ \A data \in VerifyCodeData :
                data.email = t.email =>
                    LET r == VerifyResult(data) IN
                    r.status = 400 /\ StoreOf(r) = store)
    /\ [][\A t \in teams : Stuck(t) =>
            \/ /\ Stuck(t)'
               /\ OpenCodes(t)' = OpenCodes(t)
            \/ /\ resp'.op = "delete"
               /\ resp'.status = 200
               /\ \A u \in teams' : u.username # t.username]_vars

C21_Witness ==
    /\ resp.op = "register"
    /\ resp.status = 400
    /\ Cardinality(teams) = 1
    /\ \E t \in teams : Stuck(t)


---------------------------------------------------------------------------
(* Codes of earlier registrations *)

(* C22: a committed register leaves exactly one unused code for the new
   registration's email, the one it has just issued, and no other code value
   verifies that email afterwards, whatever codes earlier registrations of
   the email left behind; as long as the registration waits, its unused
   code stays the same; and the step that verifies it marks that code used *)
C22_VerifiedByOwnCodeOnly ==
    /\ [](\A t \in teams : ~t.is_verified => Cardinality(OpenCodes(t)) = 1)
    /\ [][RegisterCommitted(resp') =>
            \A t \in teams' \ teams :
                /\ \E n \in codes' :
                    /\ OpenCodes(t)' = {n}
                    /\ n.expires_at = CodeExpiry(now)
                    /\ \A v \in CodeValues \ {n.code} :
                        VerifyResult([email |-> t.email, code |-> v])'.status # 200
                /\ \A o \in codes :
                    (o.email = t.email /\ o \in codes') =>
                        o.is_used \/ OpenCodes(t)' = {o}]_vars
    /\ [][\A t \in teams :
            (~t.is_verified /\ t \in teams') => OpenCodes(t)' = OpenCodes(t)]_vars
    /\ [][\A t \in teams :
            (~t.is_verified /\ Verified(t) \in teams') =>
                \E c \in OpenCodes(t) :
                    /\ Used(c) \in codes'
                    /\ c \notin codes'
                    /\ resp'.op = "verify"]_vars

C22_Witness ==
    /\ resp.op = "verify"
    /\ resp.status = 200
    /\ \E c1, c2 \in codes :
        /\ c1 # c2
        /\ c1.email = c2.email
        /\ c1.is_used /\ c2.is_used
        /\ c1.code # c2.code


---------------------------------------------------------------------------
(* Login by username or by email *)

\* C23 as claimed: for every verified registration, a login with its
\* username or its email and its stored password answers 200 with that
\* registration's data, whichever row first() returns.
C23_VerifiedLoginSucceeds ==
    \A t \in teams : t.is_verified =>
        \A name \in {t.username, t.email} :
            \A r \in LoginResults([username |-> name, password |-> t.password]) :
                r.status = 200 /\ r.data = {t.username}


---------------------------------------------------------------------------
(* Submissions of an earlier holder of a username *)

\* C24 as claimed: the listing of a username returns only what the team now
\* registered under it has submitted.  A team can submit only once it is
\* verified, so at the step that verifies a registration the listing of its
\* username is empty, and from then on it grows only by submit requests for
\* that username.
C24_ListingOnlyOwnSubmissions ==
    /\ [][\A t \in teams :
            (~t.is_verified /\ Verified(t) \in teams') =>
                /\ GetSubmissionsResult(t.username)'.status = 200
                /\ GetSubmissionsResult(t.username)'.data = {}]_vars
    /\ [][\A t \in teams :
            (t.is_verified /\ t \in teams'
                /\ GetSubmissionsResult(t.username)'.data
                     # GetSubmissionsResult(t.username).data) =>
                resp'.op = "submit" /\ resp'.status = 200]_vars


---------------------------------------------------------------------------
(* Racing verify requests *)

\* C25 as claimed: a code is accepted at most once under every interleaving:
\* every verify answered with success turns a code that was unused into a
\* used one.
C25_AcceptedOnceUnderRace ==
    [][\A w \in Workers :
        (pending[w] # Idle /\ pending'[w] = Idle /\ resp'.status = 200) =>
            \E c \in codes : ~c.is_used /\ Used(c) \in codes']_vars


=============================================================================
